---- MODULE Spec2Model ----
(***************************************************************************)
(* A model of trackertool (src/main.rs): the .samples2 codec               *)
(* (read_string / write_string, ImmersiveSampleData, Sample) and the       *)
(* `edit` command (main, do_edit, read_file, write_file).                  *)
(*                                                                         *)
(* Bytes are the integers 0..255.  A byte string (a file's content, a       *)
(* buffer, the UTF-8 bytes of a String) is kept as the sequence of its     *)
(* runs <<byte, count>>, no two neighbours of the same byte, so that a     *)
(* string of 65536 bytes is as small a value as one of three; the few      *)
(* bytes of a fixed-width integer are a plain tuple.                       *)
(* TLC's integers are 32 bits wide, so a u32 is kept as two 16-bit limbs   *)
(* <<hi, lo>> and a u64 as four, most significant first; an i32 fits and   *)
(* is kept as an integer.  Option<T> is <<>> for None and <<v>> for         *)
(* Some(v).  A Result is                                                   *)
(* a record with ok = TRUE and the value, or ok = FALSE and the            *)
(* io::ErrorKind in err.                                                   *)
(***************************************************************************)
EXTENDS Integers, Sequences, FiniteSets, TLC

\* ------------------------------------------------------------------------
\* Program constants
\* ------------------------------------------------------------------------

\* u16::MAX, the largest length TryInto::<u16> accepts in write_string.
U16Max == 65535

\* Capacity of the BufWriter that write_file wraps around the file
\* (BufWriter::new: the standard library's default of 8 KiB).
BufCapacity == 8192

\* i32::MAX, the largest value convert::<i32> accepts.
I32Max == 2147483647

\* Width in bytes of the i32 fields dimension, x and z.
I32Bytes == 4

\* Width in bytes of the u64 timestamp.
U64Bytes == 8

\* ------------------------------------------------------------------------
\* Option and Result
\* ------------------------------------------------------------------------

None == <<>>

Some(v) == <<v>>

Ok(v, pos) == [ok |-> TRUE, val |-> v, pos |-> pos]

Err(kind) == [ok |-> FALSE, err |-> kind]

\* ------------------------------------------------------------------------
\* Byte strings, as runs <<byte, count>>
\* ------------------------------------------------------------------------

\* The number of bytes in the runs of s from run k on.
RECURSIVE BLenFrom(_, _)
BLenFrom(s, k) == IF k > Len(s) THEN 0 ELSE s[k][2] + BLenFrom(s, k + 1)

\* The number of bytes of s.
BLen(s) == BLenFrom(s, 1)

\* s followed by t.
BCat(s, t) ==
    IF s = <<>> THEN t
    ELSE IF t = <<>> THEN s
    ELSE IF s[Len(s)][1] = t[1][1]
    THEN SubSeq(s, 1, Len(s) - 1) \o <<<<t[1][1], s[Len(s)][2] + t[1][2]>>>> \o Tail(t)
    ELSE s \o t

\* The last position of the run of equal bytes that starts at t[i].
RunEnd(t, i) ==
    IF i = Len(t) \/ t[i + 1] # t[i] THEN i
    ELSE LET ends == { j \in (i + 1)..Len(t) : j = Len(t) \/ t[j + 1] # t[i] }
         IN  CHOOSE j \in ends : \A k \in ends : j <= k

\* The byte string of a plain tuple of bytes.
RECURSIVE BOfFrom(_, _)
BOfFrom(t, i) ==
    IF i > Len(t) THEN <<>>
    ELSE LET j == RunEnd(t, i)
         IN  <<<<t[i], j - i + 1>>>> \o BOfFrom(t, j + 1)

BOf(t) == BOfFrom(t, 1)

\* The plain tuple of the bytes of s.
RECURSIVE PlainFrom(_, _)
PlainFrom(s, k) ==
    IF k > Len(s) THEN <<>> ELSE ([i \in 1..s[k][2] |-> s[k][1]] \o <<>>) \o PlainFrom(s, k + 1)

Plain(s) == PlainFrom(s, 1)

\* s without its first n bytes (n <= BLen(s)), looking from run k on.
RECURSIVE BDropFrom(_, _, _)
BDropFrom(s, k, n) ==
    IF k > Len(s) THEN <<>>
    ELSE IF n >= s[k][2] THEN BDropFrom(s, k + 1, n - s[k][2])
    ELSE <<<<s[k][1], s[k][2] - n>>>> \o SubSeq(s, k + 1, Len(s))

\* The first n bytes of s (n <= BLen(s)), looking from run k on.
RECURSIVE BTakeFrom(_, _, _)
BTakeFrom(s, k, n) ==
    IF n = 0 \/ k > Len(s) THEN SubSeq(s, 1, k - 1)
    ELSE IF n >= s[k][2] THEN BTakeFrom(s, k + 1, n - s[k][2])
    ELSE SubSeq(s, 1, k - 1) \o <<<<s[k][1], n>>>>

\* Bytes from..to of s, counted from 1.
BSub(s, from, to) ==
    IF to < from THEN <<>> ELSE BTakeFrom(BDropFrom(s, 1, from - 1), 1, to - from + 1)

\* ------------------------------------------------------------------------
\* Fixed-width integers and their big-endian encodings
\* ------------------------------------------------------------------------

\* u16::to_be_bytes
u16_to_be_bytes(n) == <<n \div 256, n % 256>>

\* u16::from_be_bytes
u16_from_be_bytes(b) == b[1] * 256 + b[2]

\* u32::to_be_bytes, on limbs <<hi, lo>>
u32_to_be_bytes(u) == u16_to_be_bytes(u[1]) \o u16_to_be_bytes(u[2])

\* u32::from_be_bytes, to limbs <<hi, lo>>
u32_from_be_bytes(b) ==
    <<u16_from_be_bytes(SubSeq(b, 1, 2)), u16_from_be_bytes(SubSeq(b, 3, 4))>>

\* u64::to_be_bytes, on four limbs
u64_to_be_bytes(t) ==
    u16_to_be_bytes(t[1]) \o u16_to_be_bytes(t[2])
        \o u16_to_be_bytes(t[3]) \o u16_to_be_bytes(t[4])

\* u64::from_be_bytes, to four limbs
u64_from_be_bytes(b) ==
    <<u16_from_be_bytes(SubSeq(b, 1, 2)), u16_from_be_bytes(SubSeq(b, 3, 4)),
      u16_from_be_bytes(SubSeq(b, 5, 6)), u16_from_be_bytes(SubSeq(b, 7, 8))>>

\* i32::to_be_bytes: two's complement, most significant byte first.
i32_to_be_bytes(v) ==
    LET w    == IF v < 0 THEN (v + I32Max) + 1 ELSE v
        top  == (IF v < 0 THEN 128 ELSE 0) + w \div 16777216
        rest == w % 16777216
    IN  <<top, rest \div 65536, (rest \div 256) % 256, rest % 256>>

\* i32::from_be_bytes
i32_from_be_bytes(b) ==
    LET rest == b[2] * 65536 + b[3] * 256 + b[4]
    IN  IF b[1] < 128
        THEN b[1] * 16777216 + rest
        ELSE (((b[1] - 128) * 16777216 + rest) - I32Max) - 1

\* The u32 value of a small natural number (a Vec's length, a discriminant).
U32Of(n) == <<n \div 65536, n % 65536>>

\* n < u, for a natural number n and a u32 u
NatLtU32(n, u) ==
    \/ n \div 65536 < u[1]
    \/ n \div 65536 = u[1] /\ n % 65536 < u[2]

\* ------------------------------------------------------------------------
\* String::from_utf8: well-formed UTF-8
\* ------------------------------------------------------------------------

IsCont(b) == b >= 128 /\ b <= 191

\* Length of the sequence a lead byte starts; 0 for a byte that starts none.
Utf8Width(b) ==
    IF b <= 127 THEN 1
    ELSE IF b >= 194 /\ b <= 223 THEN 2
    ELSE IF b >= 224 /\ b <= 239 THEN 3
    ELSE IF b >= 240 /\ b <= 244 THEN 4
    ELSE 0

\* The narrowed range of the byte after the leads E0, ED, F0 and F4.
SecondOk(lead, b) ==
    IF lead = 224 THEN b >= 160 /\ b <= 191
    ELSE IF lead = 237 THEN b >= 128 /\ b <= 159
    ELSE IF lead = 240 THEN b >= 144 /\ b <= 191
    ELSE IF lead = 244 THEN b >= 128 /\ b <= 143
    ELSE IsCont(b)

\* Every byte that is not a continuation starts a complete sequence, and
\* every continuation byte lies inside the sequence of a lead before it.
from_utf8_ok(s) ==
    \A i \in 1..Len(s) :
        IF IsCont(s[i])
        THEN \E k \in 1..3 :
                /\ i - k >= 1
                /\ Utf8Width(s[i - k]) > k
                /\ \A j \in (i - k + 1)..(i - 1) : IsCont(s[j])
        ELSE LET w == Utf8Width(s[i])
             IN  /\ w >= 1
                 /\ i + w - 1 <= Len(s)
                 /\ \A j \in (i + 1)..(i + w - 1) : IsCont(s[j])
                 /\ w >= 2 => SecondOk(s[i], s[i + 1])

\* ------------------------------------------------------------------------
\* Readers: the bytes of a stream, as a plain tuple, and a cursor (the next
\* byte to read is pos)
\* ------------------------------------------------------------------------

\* Read::read_exact of n bytes
read_exact(bytes, pos, n) ==
    IF pos + n - 1 > Len(bytes)
    THEN Err("UnexpectedEof")
    ELSE Ok(SubSeq(bytes, pos, pos + n - 1), pos + n)

\* read_string, once the length prefix and the bytes have been read:
\* `String::from_utf8(buffer)`
read_string_utf8(buffer) ==
    IF ~buffer.ok THEN buffer
    ELSE IF from_utf8_ok(buffer.val)
    THEN Ok(BOf(buffer.val), buffer.pos)
    ELSE Err("InvalidData")

\* read_string, once the length prefix has been read
read_string_buffer(bytes, len) ==
    IF ~len.ok THEN len
    ELSE read_string_utf8(read_exact(bytes, len.pos, u16_from_be_bytes(len.val)))

\* read_string
read_string(bytes, pos) == read_string_buffer(bytes, read_exact(bytes, pos, 2))

\* ImmersiveSampleData::read_from, once the three fields have been read
ImmersiveSampleData_of(mineral, liquid, timestamp) ==
    IF ~timestamp.ok THEN timestamp
    ELSE Ok([tag |-> "Immersive",
             mineral |-> mineral.val,
             liquid |-> liquid.val,
             timestamp |-> u64_from_be_bytes(timestamp.val)],
            timestamp.pos)

\* ImmersiveSampleData::read_from, once mineral and liquid have been read
ImmersiveSampleData_read_timestamp(bytes, mineral, liquid) ==
    IF ~liquid.ok THEN liquid
    ELSE ImmersiveSampleData_of(mineral, liquid, read_exact(bytes, liquid.pos, U64Bytes))

\* ImmersiveSampleData::read_from, once mineral has been read
ImmersiveSampleData_read_liquid(bytes, mineral) ==
    IF ~mineral.ok THEN mineral
    ELSE ImmersiveSampleData_read_timestamp(bytes, mineral, read_string(bytes, mineral.pos))

\* ImmersiveSampleData::read_from
ImmersiveSampleData_read_from(bytes, pos) ==
    ImmersiveSampleData_read_liquid(bytes, read_string(bytes, pos))

\* The ore payload of a TerraFirmaCraft or Geolosys sample, once the ore has
\* been read
OreData_of(tag, ore) ==
    IF ~ore.ok THEN ore ELSE Ok([tag |-> tag, ore |-> ore.val], ore.pos)

\* The ore payload of a TerraFirmaCraft or Geolosys sample
OreData_read_from(tag, bytes, pos) == OreData_of(tag, read_string(bytes, pos))

\* Sample::read_from, once every field has been read
Sample_of(dimension, x, z, data) ==
    IF ~data.ok THEN data
    ELSE Ok([dimension |-> i32_from_be_bytes(dimension.val),
             x |-> i32_from_be_bytes(x.val),
             z |-> i32_from_be_bytes(z.val),
             data |-> data.val],
            data.pos)

\* Sample::read_from, once the discriminant sm and the key have been read:
\* `let data = match source_mod { ... }`
Sample_read_data(bytes, sm, dimension, x, z) ==
    IF ~z.ok THEN z
    ELSE Sample_of(dimension, x, z,
                   IF sm = U32Of(0)
                   THEN ImmersiveSampleData_read_from(bytes, z.pos)
                   ELSE IF sm = U32Of(1)
                   THEN OreData_read_from("TerraFirmaCraft", bytes, z.pos)
                   ELSE OreData_read_from("Geolosys", bytes, z.pos))

\* Sample::read_from, once the discriminant, dimension and x have been read
Sample_read_z(bytes, sm, dimension, x) ==
    IF ~x.ok THEN x
    ELSE Sample_read_data(bytes, sm, dimension, x, read_exact(bytes, x.pos, I32Bytes))

\* Sample::read_from, once the discriminant and dimension have been read
Sample_read_x(bytes, sm, dimension) ==
    IF ~dimension.ok THEN dimension
    ELSE Sample_read_z(bytes, sm, dimension, read_exact(bytes, dimension.pos, I32Bytes))

\* Sample::read_from, once the four bytes of the discriminant have been
\* read: an unknown discriminant is refused before the key is read
Sample_read_dimension(bytes, source_mod, sm) ==
    IF sm = U32Of(0) \/ sm = U32Of(1) \/ sm = U32Of(2)
    THEN Sample_read_x(bytes, sm, read_exact(bytes, source_mod.pos, I32Bytes))
    ELSE Err("InvalidData")

\* Sample::read_from, once the read of the discriminant has been tried
Sample_read_source_mod(bytes, source_mod) ==
    IF ~source_mod.ok THEN source_mod
    ELSE Sample_read_dimension(bytes, source_mod, u32_from_be_bytes(source_mod.val))

\* Sample::read_from
Sample_read_from(bytes, pos) ==
    Sample_read_source_mod(bytes, read_exact(bytes, pos, 4))

\* size_of::<Sample>() on a target whose usize has `bits` bits, counted from
\* the declared fields: dimension, x, z, the two Strings of the largest
\* variant (pointer, capacity, length each) and its timestamp.
size_of_Sample(bits) == 3 * I32Bytes + 2 * 3 * (bits \div 8) + U64Bytes

\* Vec::with_capacity(count) panics ("capacity overflow") when count
\* elements take more than isize::MAX bytes.  A u32 count times the size of
\* a Sample stays below 2^63, so this happens on a 32-bit usize only.
capacity_overflow(count, bits) ==
    bits = 32 /\ NatLtU32(I32Max \div size_of_Sample(bits), count)

\* The loop `for _ in 0..count { ret.push(Self::read_from(r)?) }`; s is the
\* sample just read, when count is not reached yet.
RECURSIVE read_list_loop(_, _, _, _)
RECURSIVE read_list_push(_, _, _, _)
read_list_push(bytes, count, ret, s) ==
    IF ~s.ok THEN s
    ELSE read_list_loop(bytes, s.pos, count, Append(ret, s.val))

read_list_loop(bytes, pos, count, ret) ==
    IF NatLtU32(Len(ret), count)
    THEN read_list_push(bytes, count, ret, Sample_read_from(bytes, pos))
    ELSE Ok(ret, pos)

\* Sample::read_list_from, once the count n has been read
Sample_read_list_of(bytes, bits, count, n) ==
    IF bits < 32 /\ n[1] # 0 THEN Err("InvalidData")
    ELSE IF capacity_overflow(n, bits) THEN Err("panic")
    ELSE read_list_loop(bytes, count.pos, n, <<>>)

\* Sample::read_list_from, once the read of the count has been tried
Sample_read_list_count(bytes, bits, count) ==
    IF ~count.ok THEN count
    ELSE Sample_read_list_of(bytes, bits, count, u32_from_be_bytes(count.val))

\* Sample::read_list_from, from the start of the stream.  A panic is the
\* result Err("panic"): the call returns no value at all.
Sample_read_list_from(bytes, bits) ==
    Sample_read_list_count(bytes, bits, read_exact(bytes, 1, 4))

\* ------------------------------------------------------------------------
\* Writers: a BufWriter (buf) over the bytes that reached the file (out)
\* ------------------------------------------------------------------------

\* BufWriter::new over a file that File::create has just emptied
NewWriter == [buf |-> <<>>, out |-> <<>>]

\* BufWriter::flush_buf: the buffered bytes reach the file
flush_buf(w) == [buf |-> <<>>, out |-> BCat(w.out, w.buf)]

\* BufWriter::write_all: buffer what fits; otherwise flush, and write a
\* piece as large as the buffer straight through.
write_all(w, data) ==
    IF BLen(data) < BufCapacity - BLen(w.buf)
    THEN [w EXCEPT !.buf = BCat(@, data)]
    ELSE LET f == IF BLen(data) > BufCapacity - BLen(w.buf) THEN flush_buf(w) ELSE w
         IN  IF BLen(data) >= BufCapacity
             THEN [f EXCEPT !.out = BCat(@, data)]
             ELSE [f EXCEPT !.buf = BCat(@, data)]

WOk(w) == [ok |-> TRUE, w |-> w]

WErr(kind, w) == [ok |-> FALSE, err |-> kind, w |-> w]

\* write_string as it would be with `s.len() as u16`: the length wraps and
\* no error is returned.
write_string_wrapping(w, s) ==
    WOk(write_all(write_all(w, BOf(u16_to_be_bytes(BLen(s) % (U16Max + 1)))), s))

\* write_string
write_string(w, s) ==
    IF BLen(s) > U16Max
    THEN WErr("InvalidInput", w)
    ELSE WOk(write_all(write_all(w, BOf(u16_to_be_bytes(BLen(s)))), s))

\* ImmersiveSampleData::write_to
ImmersiveSampleData_write_to(w, data) ==
    LET m == write_string(w, data.mineral)
    IN  IF ~m.ok THEN m
        ELSE LET l == write_string(m.w, data.liquid)
             IN  IF ~l.ok THEN l
                 ELSE WOk(write_all(l.w, BOf(u64_to_be_bytes(data.timestamp))))

\* Sample::write_to's first match as it would be with both ore variants in
\* one arm, as its second match has them.
Discriminant_ores_merged(data) ==
    IF data.tag = "Immersive" THEN 0 ELSE 1

\* The discriminant Sample::write_to writes for a variant
Discriminant(data) ==
    IF data.tag = "Immersive" THEN 0
    ELSE IF data.tag = "TerraFirmaCraft" THEN 1
    ELSE 2

\* Sample::write_to
Sample_write_to(w, s) ==
    LET w1 == write_all(w, BOf(u32_to_be_bytes(U32Of(Discriminant(s.data)))))
        w2 == write_all(w1, BOf(i32_to_be_bytes(s.dimension)))
        w3 == write_all(w2, BOf(i32_to_be_bytes(s.x)))
        w4 == write_all(w3, BOf(i32_to_be_bytes(s.z)))
    IN  IF s.data.tag = "Immersive"
        THEN ImmersiveSampleData_write_to(w4, s.data)
        ELSE write_string(w4, s.data.ore)

\* The loop `for i in data { i.write_to(w)?; }`
RECURSIVE write_list_loop(_, _, _)
write_list_loop(w, data, i) ==
    IF i > Len(data) THEN WOk(w)
    ELSE LET r == Sample_write_to(w, data[i])
         IN  IF ~r.ok THEN r ELSE write_list_loop(r.w, data, i + 1)

\* Sample::write_list_to.  A length is a small natural number here, so the
\* conversion to u32 fails only past 65535 * 65536 + 65535.
Sample_write_list_to(w, data) ==
    IF Len(data) \div 65536 > U16Max
    THEN WErr("InvalidInput", w)
    ELSE write_list_loop(write_all(w, BOf(u32_to_be_bytes(U32Of(Len(data))))), data, 1)

\* ------------------------------------------------------------------------
\* convert::<i32>: str::parse
\* ------------------------------------------------------------------------

Digits == <<"0", "1", "2", "3", "4", "5", "6", "7", "8", "9">>

IsDigit(c) == \E i \in 1..10 : Digits[i] = c

DigitOf(c) == (CHOOSE i \in 1..10 : Digits[i] = c) - 1

\* The digits of s from position i on, accumulated with checked arithmetic
\* (towards i32::MIN when the sign is '-').  None when a character is no
\* digit or the value leaves the range of i32.
RECURSIVE parse_digits(_, _, _, _)
parse_digits(s, i, acc, neg) ==
    IF i > Len(s) THEN Some(acc)
    ELSE IF ~IsDigit(s[i]) THEN None
    ELSE LET d == DigitOf(s[i])
             q == I32Max \div 10
             r == I32Max % 10
         IN  IF neg
             THEN IF acc < -q \/ (acc = -q /\ d > r + 1) THEN None
                  ELSE parse_digits(s, i + 1, acc * 10 - d, neg)
             ELSE IF acc > q \/ (acc = q /\ d > r) THEN None
                  ELSE parse_digits(s, i + 1, acc * 10 + d, neg)

\* <i32 as FromStr>::from_str: an optional sign, then at least one digit.
i32_from_str(s) ==
    IF s = <<>> THEN None
    ELSE IF s[1] = "+" \/ s[1] = "-"
    THEN IF Len(s) = 1 THEN None ELSE parse_digits(s, 2, 0, s[1] = "-")
    ELSE parse_digits(s, 1, 0, FALSE)

\* ------------------------------------------------------------------------
\* do_edit: the loop over the samples
\* ------------------------------------------------------------------------

\* The loop body as it would be if every sample at the key counted as found.
edit_sample_any_variant(s, found, dimension, x, z, mineral, liquid, ore) ==
    IF s.dimension = dimension /\ s.x = x /\ s.z = z
    THEN IF s.data.tag = "Immersive"
         THEN LET d1 == IF mineral # None
                        THEN [s.data EXCEPT !.mineral = mineral[1]]
                        ELSE s.data
                  d2 == IF liquid # None
                        THEN [d1 EXCEPT !.liquid = liquid[1]]
                        ELSE d1
              IN  [s |-> [s EXCEPT !.data = d2], found |-> TRUE]
         ELSE IF ore # None
              THEN [s |-> [s EXCEPT !.data.ore = ore[1]], found |-> TRUE]
              ELSE [s |-> s, found |-> TRUE]
    ELSE [s |-> s, found |-> found]

\* The loop body as it would be if the key left out z.
edit_sample_no_z(s, found, dimension, x, z, mineral, liquid, ore) ==
    IF s.dimension = dimension /\ s.x = x
    THEN IF s.data.tag = "Immersive"
         THEN LET d1 == IF mineral # None
                        THEN [s.data EXCEPT !.mineral = mineral[1]]
                        ELSE s.data
                  d2 == IF liquid # None
                        THEN [d1 EXCEPT !.liquid = liquid[1]]
                        ELSE d1
              IN  [s |-> [s EXCEPT !.data = d2],
                   found |-> found \/ mineral # None \/ liquid # None]
         ELSE IF ore # None
              THEN [s |-> [s EXCEPT !.data.ore = ore[1]], found |-> TRUE]
              ELSE [s |-> s, found |-> found]
    ELSE [s |-> s, found |-> found]

\* The body of `for i in &mut samples`: the sample and `found` after it.
edit_sample(s, found, dimension, x, z, mineral, liquid, ore) ==
    IF s.dimension = dimension /\ s.x = x /\ s.z = z
    THEN IF s.data.tag = "Immersive"
         THEN LET d1 == IF mineral # None
                        THEN [s.data EXCEPT !.mineral = mineral[1]]
                        ELSE s.data
                  d2 == IF liquid # None
                        THEN [d1 EXCEPT !.liquid = liquid[1]]
                        ELSE d1
              IN  [s |-> [s EXCEPT !.data = d2],
                   found |-> found \/ mineral # None \/ liquid # None]
         ELSE IF ore # None
              THEN [s |-> [s EXCEPT !.data.ore = ore[1]], found |-> TRUE]
              ELSE [s |-> s, found |-> found]
    ELSE [s |-> s, found |-> found]

\* The loop as it would be with a `break` after the first sample found.
RECURSIVE edit_loop_first_only(_, _, _, _, _, _, _, _, _)
edit_loop_first_only(list, i, found, dimension, x, z, mineral, liquid, ore) ==
    IF i > Len(list) \/ found THEN [samples |-> list, found |-> found]
    ELSE LET s == list[i]
             hit == /\ s.dimension = dimension /\ s.x = x /\ s.z = z
                    /\ IF s.data.tag = "Immersive"
                       THEN mineral # None \/ liquid # None
                       ELSE ore # None
             d == IF s.data.tag = "Immersive"
                  THEN [s.data EXCEPT
                          !.mineral = IF mineral # None THEN mineral[1] ELSE @,
                          !.liquid = IF liquid # None THEN liquid[1] ELSE @]
                  ELSE [s.data EXCEPT !.ore = ore[1]]
         IN  edit_loop_first_only(IF hit THEN [list EXCEPT ![i].data = d] ELSE list,
                                  i + 1, hit, dimension, x, z, mineral, liquid, ore)

\* The loop, from sample i on.
RECURSIVE edit_loop(_, _, _, _, _, _, _, _, _)
edit_loop(list, i, found, dimension, x, z, mineral, liquid, ore) ==
    IF i > Len(list) THEN [samples |-> list, found |-> found]
    ELSE LET r == edit_sample(list[i], found, dimension, x, z, mineral, liquid, ore)
         IN  edit_loop([list EXCEPT ![i] = r.s], i + 1, r.found,
                       dimension, x, z, mineral, liquid, ore)

\* The two messages the other way round.
not_found_outcome_swapped(ore) ==
    IF ore # None THEN "no_immersive_sample" ELSE "no_ore_sample"

\* The message do_edit prints before exit(1) when nothing was found.
not_found_outcome(ore) ==
    IF ore # None THEN "no_ore_sample" ELSE "no_immersive_sample"

\* get_matches: --ore conflicts with --mineral and --liquid, and is
\* required unless one of them is given.
clap_usage_error(mineral, liquid, ore) ==
    \/ ore # None /\ (mineral # None \/ liquid # None)
    \/ ore = None /\ mineral = None /\ liquid = None

\* The exit status of the process: 0 when main returns Ok, 1 when it returns
\* an error or exit(1) is called, 101 on a panic; none when it is killed.
ExitStatus(how) ==
    IF how = "ok" THEN Some(0)
    ELSE IF how = "panic" THEN Some(101)
    ELSE IF how = "crash" \/ how = "running" THEN None
    ELSE Some(1)

\* ------------------------------------------------------------------------
\* Inputs
\* ------------------------------------------------------------------------

\* The longest list of samples.
MaxRecords == 2

\* A damaged stream is cut within this many bytes of either end.
EdgeBytes == 64

\* A string of n bytes 'A'.
Fill(n) == <<<<65, n>>>>

Immersive(dimension, x, z, mineral, liquid, timestamp) ==
    [dimension |-> dimension, x |-> x, z |-> z,
     data |-> [tag |-> "Immersive", mineral |-> mineral, liquid |-> liquid,
               timestamp |-> timestamp]]

OreSample(tag, dimension, x, z, ore) ==
    [dimension |-> dimension, x |-> x, z |-> z, data |-> [tag |-> tag, ore |-> ore]]

\* Samples at (1, 10, -5) of each variant, one beside it at (1, 10, 5) and
\* one at the ends of the range of i32.
Pool ==
    { Immersive(1, 10, -5, BOf(<<70, 101>>), <<>>, <<0, 0, 0, 7>>),
      Immersive(1, 10, -5, BOf(<<195, 169>>), BOf(<<87>>), <<65535, 65535, 65535, 65535>>),
      Immersive(1, 10, 5, BOf(<<65, 103>>), BOf(<<79, 105, 108>>), <<1, 2, 3, 4>>),
      OreSample("Geolosys", 1, 10, -5, BOf(<<67, 117>>)),
      OreSample("TerraFirmaCraft", 1, 10, -5, <<>>),
      OreSample("TerraFirmaCraft", I32Max, -I32Max - 1, -1, BOf(<<240, 159, 152, 128>>)) }

Lists == UNION { [1..n -> Pool] : n \in 0..MaxRecords }

\* The bytes write_list_to leaves in a file once the writer is flushed.
Encoded(list) == flush_buf(Sample_write_list_to(NewWriter, list).w).out

\* A file on disk: whether it exists, and its bytes.
FileOf(bytes) == [exists |-> TRUE, bytes |-> bytes]

NoFile == [exists |-> FALSE, bytes |-> <<>>]

\* `bytes` with the four bytes from position pos on replaced by the u32 u.
WithU32At(bytes, pos, u) ==
    BCat(BCat(BSub(bytes, 1, pos - 1), BOf(u32_to_be_bytes(u))),
         BSub(bytes, pos + 4, BLen(bytes)))

\* The position of sample i's discriminant in the encoding of list.
RecordStart(list, i) == BLen(Encoded(SubSeq(list, 1, i - 1))) + 1

\* Discriminants that name no variant: 3, 65536 and u32::MAX.
BadDiscriminants == { <<0, 3>>, <<1, 0>>, <<65535, 65535>> }

\* The files an edit is run on: the encoding of a list, intact or followed
\* by a stray byte, cut short, with an unknown discriminant, with a count of
\* u32::MAX, with a string that is not UTF-8; or no file at all.
FileVariants(list) ==
    LET enc == Encoded(list)
    IN  { FileOf(enc), NoFile,
          FileOf(BCat(enc, BOf(<<0>>))),
          FileOf(BSub(enc, 1, BLen(enc) - 1)),
          FileOf(WithU32At(enc, 1, <<65535, 65535>>)),
          FileOf(Encoded(<<OreSample("Geolosys", 1, 10, -5, BOf(<<255>>))>> \o list)) }
      \cup { FileOf(WithU32At(enc, RecordStart(list, 1), <<0, 3>>)) : k \in 1..(IF list = <<>> THEN 0 ELSE 1) }

Files == UNION { FileVariants(list) : list \in Lists }

\* The positional arguments, as the characters typed.
KeyArgs ==
    { <<<<"1">>, <<"1", "0">>, <<"-", "5">>>>,
      <<<<"1">>, <<"1", "0">>, <<"+", "5">>>>,
      <<<<"1", "x">>, <<"1", "0">>, <<"-", "5">>>>,
      <<<<"1">>, <<"2", "1", "4", "7", "4", "8", "3", "6", "4", "8">>, <<"-", "5">>>>,
      <<<<"1">>, <<"1", "0">>, <<"-">>>> }

MakeArgs(k, mineral, liquid, ore) ==
    [dimension |-> k[1], x |-> k[2], z |-> k[3],
     mineral |-> mineral, liquid |-> liquid, ore |-> ore]

\* Every combination of short texts, the conflicting and the empty one too.
ShortArgs ==
    { MakeArgs(k, m, l, o) :
        k \in KeyArgs, m \in {None, Some(BOf(<<81>>))},
        l \in {None, Some(BOf(<<76, 97>>))}, o \in {None, Some(BOf(<<72>>))} }

\* Texts at the limit of the length prefix, and one byte past it.
LongArgs ==
    LET k == <<<<"1">>, <<"1", "0">>, <<"-", "5">>>>
    IN  UNION { { MakeArgs(k, Some(Fill(n)), None, None),
                  MakeArgs(k, None, Some(Fill(n)), None),
                  MakeArgs(k, None, None, Some(Fill(n))) } : n \in {U16Max, U16Max + 1} }

\* The pointer widths the program is built for.
TargetBits == {32, 64}

\* ------------------------------------------------------------------------
\* State
\* ------------------------------------------------------------------------

VARIABLES
    usize_bits,   \* the width of usize on the target
    args,         \* the arguments of the edit subcommand
    file,         \* the file on disk
    file0,        \* the file as it was before the invocation
    pc,           \* the statement the invocation is at
    samples,      \* do_edit's `samples`
    key,          \* do_edit's `dimension`, `x`, `z`
    found,        \* do_edit's `found`
    writer,       \* write_file's BufWriter
    outcome,      \* how the invocation ended
    opened,       \* whether File::open has been called
    created,      \* whether File::create has been called
    c_pc,         \* codec runs: the step reached
    c_list,       \* codec runs: the list to encode
    c_str,        \* codec runs: the string to encode
    c_bytes,      \* codec runs: the byte stream
    c_damage,     \* codec runs: what was done to the stream
    c_wres,       \* codec runs: whether the write returned Ok
    c_res         \* codec runs: the result of the read

editVars == <<args, file, file0, pc, samples, key, found, writer, outcome, opened, created>>

codecVars == <<c_pc, c_list, c_str, c_bytes, c_damage, c_wres, c_res>>

vars == <<usize_bits, editVars, codecVars>>

NoKey == [dimension |-> 0, x |-> 0, z |-> 0]

NoArgs == MakeArgs(<<<<>>, <<>>, <<>>>>, None, None, None)

EditIdle ==
    /\ args = NoArgs
    /\ file = NoFile
    /\ file0 = NoFile
    /\ pc = "idle"
    /\ samples = <<>>
    /\ key = NoKey
    /\ found = FALSE
    /\ writer = NewWriter
    /\ outcome = "running"
    /\ opened = FALSE
    /\ created = FALSE

CodecIdle ==
    /\ c_pc = "idle"
    /\ c_list = <<>>
    /\ c_str = <<>>
    /\ c_bytes = <<>>
    /\ c_damage = "none"
    /\ c_wres = FALSE
    /\ c_res = Err("none")

\* ------------------------------------------------------------------------
\* The edit command
\* ------------------------------------------------------------------------

Init ==
    /\ CodecIdle
    /\ \/ /\ usize_bits \in TargetBits
          /\ args \in ShortArgs
          /\ file \in Files
       \/ /\ usize_bits = 64
          /\ args \in LongArgs
          /\ \E list \in Lists : Len(list) <= 1 /\ file = FileOf(Encoded(list))
    /\ file0 = file
    /\ pc = "main"
    /\ samples = <<>>
    /\ key = NoKey
    /\ found = FALSE
    /\ writer = NewWriter
    /\ outcome = "running"
    /\ opened = FALSE
    /\ created = FALSE

Finish(how) ==
    /\ pc' = "done"
    /\ outcome' = how

\* main: get_matches rejects a bad combination of options, and otherwise
\* do_edit is called.
GetMatches ==
    /\ pc = "main"
    /\ IF clap_usage_error(args.mineral, args.liquid, args.ore)
       THEN Finish("usage")
       ELSE pc' = "read_file" /\ UNCHANGED outcome
    /\ UNCHANGED <<usize_bits, args, file, file0, samples, key, found, writer,
                   opened, created, codecVars>>

\* do_edit: `let mut samples = read_file(&file)?;`
ReadFile ==
    /\ pc = "read_file"
    /\ opened' = TRUE
    /\ IF ~file.exists
       THEN Finish("NotFound") /\ UNCHANGED samples
       ELSE LET r == Sample_read_list_from(Plain(file.bytes), usize_bits)
            IN  IF r.ok
                THEN samples' = r.val /\ pc' = "convert" /\ UNCHANGED outcome
                ELSE Finish(r.err) /\ UNCHANGED samples
    /\ UNCHANGED <<usize_bits, args, file, file0, key, found, writer, created, codecVars>>

\* do_edit: the three calls of convert, each of which exits on a bad number.
Convert ==
    /\ pc = "convert"
    /\ LET dimension == i32_from_str(args.dimension)
           x == i32_from_str(args.x)
           z == i32_from_str(args.z)
       IN  IF dimension = None \/ x = None \/ z = None
           THEN Finish("usage") /\ UNCHANGED key
           ELSE /\ key' = [dimension |-> dimension[1], x |-> x[1], z |-> z[1]]
                /\ pc' = "edit"
                /\ UNCHANGED outcome
    /\ UNCHANGED <<usize_bits, args, file, file0, samples, found, writer,
                   opened, created, codecVars>>

\* do_edit: the loop, and the exits when nothing was found.
EditLoop ==
    /\ pc = "edit"
    /\ LET r == edit_loop(samples, 1, FALSE, key.dimension, key.x, key.z,
                          args.mineral, args.liquid, args.ore)
       IN  /\ samples' = r.samples
           /\ found' = r.found
           /\ IF r.found
              THEN pc' = "file_create" /\ UNCHANGED outcome
              ELSE Finish(not_found_outcome(args.ore))
    /\ UNCHANGED <<usize_bits, args, file, file0, key, writer, opened, created, codecVars>>

\* write_file: File::create empties the file; BufWriter::new wraps it.
FileCreate ==
    /\ pc = "file_create"
    /\ created' = TRUE
    /\ file' = FileOf(<<>>)
    /\ writer' = NewWriter
    /\ pc' = "write_list"
    /\ UNCHANGED <<usize_bits, args, file0, samples, key, found, outcome, opened, codecVars>>

\* write_file: Sample::write_list_to(&mut writer, samples)?.  On an error
\* the BufWriter is dropped, which writes out what it holds.
WriteListTo ==
    /\ pc = "write_list"
    /\ LET r == Sample_write_list_to(writer, samples)
       IN  IF r.ok
           THEN /\ writer' = r.w
                /\ file' = FileOf(r.w.out)
                /\ pc' = "into_inner"
                /\ UNCHANGED outcome
           ELSE /\ writer' = flush_buf(r.w)
                /\ file' = FileOf(flush_buf(r.w).out)
                /\ Finish(r.err)
    /\ UNCHANGED <<usize_bits, args, file0, samples, key, found, opened, created, codecVars>>

\* write_file: writer.into_inner()? writes out the buffer.
IntoInner ==
    /\ pc = "into_inner"
    /\ writer' = flush_buf(writer)
    /\ file' = FileOf(flush_buf(writer).out)
    /\ pc' = "sync_all"
    /\ UNCHANGED <<usize_bits, args, file0, samples, key, found, outcome, opened,
                   created, codecVars>>

\* write_file: flush, sync_all, Ok(()).
SyncAll ==
    /\ pc = "sync_all"
    /\ Finish("ok")
    /\ UNCHANGED <<usize_bits, args, file, file0, samples, key, found, writer,
                   opened, created, codecVars>>

\* The process is killed inside write_file: the file stays as it is.
Crash ==
    /\ pc \in {"write_list", "into_inner", "sync_all"}
    /\ Finish("crash")
    /\ UNCHANGED <<usize_bits, args, file, file0, samples, key, found, writer,
                   opened, created, codecVars>>

Next ==
    \/ GetMatches
    \/ ReadFile
    \/ Convert
    \/ EditLoop
    \/ FileCreate
    \/ WriteListTo
    \/ IntoInner
    \/ SyncAll
    \/ Crash

Spec == Init /\ [][Next]_vars

\* ------------------------------------------------------------------------
\* Codec runs: a list or a string is written, the stream may be damaged,
\* and it is read back
\* ------------------------------------------------------------------------

\* A list whose one string is as long as the length prefix allows.
LongLists ==
    { <<OreSample("Geolosys", 1, 10, -5, Fill(U16Max))>>,
      <<Immersive(1, 10, -5, <<>>, Fill(U16Max), <<0, 0, 0, 7>>)>> }

\* Strings of a few bytes, of 65535 bytes, and longer.
Strings ==
    { <<>>, BOf(<<65>>), BOf(<<195, 169>>), BOf(<<226, 130, 172, 33>>),
      Fill(U16Max - 1), Fill(U16Max), Fill(U16Max + 1), Fill(U16Max + 2),
      Fill(2 * (U16Max + 1)) }

\* Where a stream of n bytes is cut: anywhere within EdgeBytes of an end.
TruncationPoints(n) == { k \in 0..(n - 1) : k < EdgeBytes \/ k >= n - EdgeBytes }

InitCodec ==
    /\ EditIdle
    /\ usize_bits \in TargetBits
    /\ \/ c_pc = "list" /\ c_list \in Lists \cup LongLists /\ c_str = <<>>
       \/ c_pc = "string" /\ c_list = <<>> /\ c_str \in Strings /\ usize_bits = 64
    /\ c_bytes = <<>>
    /\ c_damage = "none"
    /\ c_wres = FALSE
    /\ c_res = Err("none")

\* Sample::write_list_to into a buffered writer, which is then flushed.
Encode ==
    /\ c_pc = "list"
    /\ LET r == Sample_write_list_to(NewWriter, c_list)
       IN  /\ c_wres' = r.ok
           /\ c_bytes' = flush_buf(r.w).out
    /\ c_pc' = "encoded"
    /\ UNCHANGED <<usize_bits, editVars, c_list, c_str, c_damage, c_res>>

\* The stream ends after its first k bytes.
Truncate ==
    /\ c_pc = "encoded"
    /\ c_wres
    /\ \E k \in TruncationPoints(BLen(c_bytes)) : c_bytes' = BSub(c_bytes, 1, k)
    /\ c_damage' = "truncated"
    /\ c_pc' = "damaged"
    /\ UNCHANGED <<usize_bits, editVars, c_list, c_str, c_wres, c_res>>

\* The discriminant of one record names no variant.
SetDiscriminant ==
    /\ c_pc = "encoded"
    /\ c_wres
    /\ \E i \in 1..Len(c_list), d \in BadDiscriminants :
          c_bytes' = WithU32At(c_bytes, RecordStart(c_list, i), d)
    /\ c_damage' = "discriminant"
    /\ c_pc' = "damaged"
    /\ UNCHANGED <<usize_bits, editVars, c_list, c_str, c_wres, c_res>>

\* The count declares more records than the stream holds: one more, 65536
\* more, or u32::MAX.
SetCount ==
    /\ c_pc = "encoded"
    /\ c_wres
    /\ \E n \in { U32Of(Len(c_list) + 1), <<1, Len(c_list)>>, <<65535, 65535>> } :
          c_bytes' = WithU32At(c_bytes, 1, n)
    /\ c_damage' = "count"
    /\ c_pc' = "damaged"
    /\ UNCHANGED <<usize_bits, editVars, c_list, c_str, c_wres, c_res>>

\* Sample::read_list_from on the stream.
Decode ==
    /\ c_pc \in {"encoded", "damaged"}
    /\ c_wres
    /\ c_res' = Sample_read_list_from(Plain(c_bytes), usize_bits)
    /\ c_pc' = "decoded"
    /\ UNCHANGED <<usize_bits, editVars, c_list, c_str, c_bytes, c_damage, c_wres>>

\* write_string into a buffered writer, which is then flushed.
WriteString ==
    /\ c_pc = "string"
    /\ LET r == write_string(NewWriter, c_str)
       IN  /\ c_wres' = r.ok
           /\ c_bytes' = flush_buf(r.w).out
    /\ c_pc' = "string_written"
    /\ UNCHANGED <<usize_bits, editVars, c_list, c_str, c_damage, c_res>>

\* The string's bytes are cut short by one.
TruncateString ==
    /\ c_pc = "string_written"
    /\ c_wres
    /\ c_bytes' = BSub(c_bytes, 1, BLen(c_bytes) - 1)
    /\ c_damage' = "truncated"
    /\ c_pc' = "string_damaged"
    /\ UNCHANGED <<usize_bits, editVars, c_list, c_str, c_wres, c_res>>

\* read_string on the stream.
ReadString ==
    /\ c_pc \in {"string_written", "string_damaged"}
    /\ c_wres
    /\ c_res' = read_string(Plain(c_bytes), 1)
    /\ c_pc' = "string_read"
    /\ UNCHANGED <<usize_bits, editVars, c_list, c_str, c_bytes, c_damage, c_wres>>

NextCodec ==
    \/ Encode
    \/ Truncate
    \/ SetDiscriminant
    \/ SetCount
    \/ Decode
    \/ WriteString
    \/ TruncateString
    \/ ReadString

SpecCodec == InitCodec /\ [][NextCodec]_vars

\* ------------------------------------------------------------------------
\* Properties
\* ------------------------------------------------------------------------

\* What the file held before the invocation, decoded.
Orig == Sample_read_list_from(Plain(file0.bytes), usize_bits)

\* What the file holds now, decoded.
Persisted == Sample_read_list_from(Plain(file.bytes), usize_bits)

\* The key the arguments name, when all three are numbers.
ArgsParse ==
    /\ i32_from_str(args.dimension) # None
    /\ i32_from_str(args.x) # None
    /\ i32_from_str(args.z) # None

AtKey(s) ==
    /\ s.dimension = i32_from_str(args.dimension)[1]
    /\ s.x = i32_from_str(args.x)[1]
    /\ s.z = i32_from_str(args.z)[1]

\* The variant accepts the fields supplied.
Eligible(s) ==
    IF s.data.tag = "Immersive"
    THEN args.mineral # None \/ args.liquid # None
    ELSE args.ore # None

\* The loop of do_edit has run.
LoopDone ==
    \/ pc \in {"file_create", "write_list", "into_inner", "sync_all"}
    \/ pc = "done" /\ outcome \in {"ok", "crash", "InvalidInput",
                                   "no_ore_sample", "no_immersive_sample"}

\* No supplied text is longer than a length prefix can say.
TextsFit ==
    \A t \in {args.mineral, args.liquid, args.ore} : t # None => BLen(t[1]) <= 65535

\* C1: a list whose strings are at most 65535 bytes long is written without
\* error, and reading the bytes written gives back the same list: as many
\* records, in the same order, each with the same variant and fields.
C1_RoundTrip ==
    /\ c_pc \in {"encoded", "damaged", "decoded"} => c_wres
    /\ c_pc = "decoded" /\ c_damage = "none" => c_res.ok /\ c_res.val = c_list

C1_Witness ==
    /\ c_pc = "decoded"
    /\ c_damage = "none"
    /\ Len(c_list) = 2
    /\ c_list[1].data.tag = "Immersive"
    /\ c_list[2].data.tag = "TerraFirmaCraft"
    /\ c_list[2].x < 0
    /\ c_res.ok
    /\ c_res.val = c_list

\* C2: reading a stream that ends before the declared count of records is
\* there, or that holds a discriminant other than 0, 1 and 2, returns an
\* error; it does not panic and yields no list.
C2_Rejection ==
    /\ c_pc = "decoded" /\ c_damage \in {"truncated", "count", "discriminant"}
          => ~c_res.ok /\ c_res.err \in {"UnexpectedEof", "InvalidData"}
    /\ c_pc = "decoded" /\ c_damage = "discriminant" => c_res.err # "UnexpectedEof"
    /\ c_pc = "string_read" /\ c_damage = "truncated"
          => ~c_res.ok /\ c_res.err = "UnexpectedEof"

\* C3: once the loop of do_edit has run, a sample at the key whose variant
\* does not accept the supplied fields is as it was, and found is set exactly
\* when a sample at the key has a variant that accepts them; and then the
\* edit ends in success.
C3_VariantEligibility ==
    LoopDone =>
        LET orig == Orig.val
        IN  /\ Len(samples) = Len(orig)
            /\ \A i \in 1..Len(orig) :
                  AtKey(orig[i]) /\ ~Eligible(orig[i]) => samples[i] = orig[i]
            /\ found <=> \E i \in 1..Len(orig) : AtKey(orig[i]) /\ Eligible(orig[i])
            /\ pc = "done" /\ found /\ TextsFit /\ outcome # "crash" => outcome = "ok"

C3_Witness ==
    /\ outcome = "ok"
    /\ args.ore # None
    /\ LET orig == Orig.val
       IN  \E i, j \in 1..Len(orig) :
              /\ orig[i].data.tag = "Immersive" /\ AtKey(orig[i])
              /\ orig[j].data.tag = "Geolosys" /\ AtKey(orig[j])
              /\ samples[i] = orig[i]
              /\ samples[j].data.ore = args.ore[1]
              /\ samples[j] # orig[j]
              /\ Persisted.val = samples

\* C4: after a successful edit the file holds the supplied value in every
\* sample at the key whose variant accepts it, not only in the first.
C4_MultiMatch ==
    outcome = "ok" =>
        LET orig == Orig.val
            now == Persisted
        IN  /\ now.ok
            /\ Len(now.val) = Len(orig)
            /\ \A i \in 1..Len(orig) :
                  AtKey(orig[i]) /\ Eligible(orig[i]) =>
                     LET d == now.val[i].data
                     IN  IF d.tag = "Immersive"
                         THEN /\ args.mineral # None => d.mineral = args.mineral[1]
                              /\ args.liquid # None => d.liquid = args.liquid[1]
                         ELSE d.ore = args.ore[1]

C4_Witness ==
    /\ outcome = "ok"
    /\ args.mineral # None
    /\ LET orig == Orig.val
           now == Persisted.val
       IN  \E i, j \in 1..Len(orig) :
              /\ i < j
              /\ orig[i].data.tag = "Immersive" /\ AtKey(orig[i])
              /\ orig[j].data.tag = "Immersive" /\ AtKey(orig[j])
              /\ orig[i].data.mineral # orig[j].data.mineral
              /\ now[i].data.mineral = args.mineral[1]
              /\ now[j].data.mineral = args.mineral[1]

\* C5: when the file decodes, the arguments are valid and no sample is both
\* at the key and of a variant that accepts the supplied fields, File::create
\* is never called, the file stays byte for byte as it was, and the
\* invocation ends with exit status 1 and the message about TFC or Geolosys
\* samples if --ore was given, about Immersive samples otherwise.
C5_EditMiss ==
    LET orig == Orig
    IN  (/\ file0.exists
         /\ ~clap_usage_error(args.mineral, args.liquid, args.ore)
         /\ ArgsParse
         /\ orig.ok
         /\ ~\E i \in 1..Len(orig.val) : AtKey(orig.val[i]) /\ Eligible(orig.val[i]))
        => /\ ~created
           /\ file = file0
           /\ pc = "done" =>
                 /\ outcome = IF args.ore # None THEN "no_ore_sample"
                                                 ELSE "no_immersive_sample"
                 /\ ExitStatus(outcome) = Some(1)

C5_Witness ==
    /\ pc = "done"
    /\ outcome = "no_immersive_sample"
    /\ args.mineral # None
    /\ LET orig == Orig.val
       IN  \E i \in 1..Len(orig) : AtKey(orig[i]) /\ orig[i].data.tag = "Geolosys"
    /\ file = file0
    /\ ~created

\* C6: at every point of an invocation the file holds either all of its old
\* content or all of the new content, never nothing and never a part.
C6_OldOrNew ==
    \/ file = file0
    \/ /\ created
       /\ Sample_write_list_to(NewWriter, samples).ok
       /\ file = FileOf(Encoded(samples))

\* C7: an invocation that ends in a format error, from decoding or from
\* encoding, leaves the file byte for byte as it was.
C7_FormatErrorKeepsFile ==
    pc = "done" /\ outcome \in {"UnexpectedEof", "InvalidData", "InvalidInput"}
        => file = file0

\* C8: with a dimension, x or z that is no 32-bit integer, or --ore given
\* together with --mineral or --liquid, the invocation ends in a usage error
\* whatever the file is, and no file has been opened when it does.
C8_UsageBeforeIO ==
    LET invalid == \/ args.ore # None /\ (args.mineral # None \/ args.liquid # None)
                   \/ ~ArgsParse
    IN  /\ invalid /\ pc = "done" => outcome = "usage"
        /\ invalid => ~opened

\* C9: write_string writes a string of up to 65535 bytes as its length in two
\* bytes and then its bytes, and read_string gives the string back; for a
\* string of 65536 bytes or more it returns an error and writes nothing, so
\* no string is cut short or written under a wrapped length.
C9_StringBoundary ==
    c_pc \in {"string_written", "string_damaged", "string_read"} =>
        /\ BLen(c_str) <= 65535 => c_wres
        /\ BLen(c_str) <= 65535 /\ c_pc = "string_written" =>
              /\ BLen(c_bytes) = BLen(c_str) + 2
              /\ Plain(BSub(c_bytes, 1, 1))[1] * 256 + Plain(BSub(c_bytes, 2, 2))[1]
                    = BLen(c_str)
              /\ BSub(c_bytes, 3, BLen(c_bytes)) = c_str
        /\ BLen(c_str) >= 65536 => ~c_wres /\ c_bytes = <<>>
        /\ c_pc = "string_read" /\ c_damage = "none" => c_res.ok /\ c_res.val = c_str

C9_Witness ==
    /\ c_pc = "string_read"
    /\ c_damage = "none"
    /\ BLen(c_str) = 65535
    /\ c_res.ok
    /\ c_res.val = c_str

\* C10: after a successful edit the file holds as many samples as before, in
\* the same order; a sample not at the key is as it was; and every sample
\* keeps its variant, dimension, x and z, and an Immersive one its timestamp
\* and whichever of mineral and liquid was not supplied.
C10_EditFrame ==
    outcome = "ok" =>
        LET orig == Orig.val
            now == Persisted
        IN  /\ now.ok
            /\ Len(now.val) = Len(orig)
            /\ \A i \in 1..Len(orig) :
                  LET o == orig[i]
                      n == now.val[i]
                  IN  /\ ~AtKey(o) => n = o
                      /\ n.data.tag = o.data.tag
                      /\ n.dimension = o.dimension /\ n.x = o.x /\ n.z = o.z
                      /\ o.data.tag = "Immersive" =>
                            /\ n.data.timestamp = o.data.timestamp
                            /\ args.mineral = None => n.data.mineral = o.data.mineral
                            /\ args.liquid = None => n.data.liquid = o.data.liquid

C10_Witness ==
    /\ outcome = "ok"
    /\ args.mineral # None
    /\ args.liquid = None
    /\ LET orig == Orig.val
           now == Persisted.val
       IN  \E i, j \in 1..Len(orig) :
              /\ AtKey(orig[i])
              /\ orig[i].data.tag = "Immersive"
              /\ orig[i].data.liquid # <<>>
              /\ now[i] # orig[i]
              /\ now[i].data.liquid = orig[i].data.liquid
              /\ ~AtKey(orig[j])
              /\ now[j] = orig[j]

====
